---- MODULE Spec2Model ----
(***************************************************************************)
(* Model of the ROS 2 types registry (src/src/registry.rs, type_info.rs,   *)
(* main.rs): the key-expression tree holding one TypeInfo per full name,   *)
(* the directory loader with duplicate / conflict detection, the pattern   *)
(* query and the MCAP schema flattening.                                    *)
(*                                                                         *)
(* Strings that the code splits or compares chunk-wise (type names, key    *)
(* expressions) are sequences of chunks; texts that the code only          *)
(* concatenates are sequences of tokens.                                   *)
(***************************************************************************)
EXTENDS Naturals, Sequences, FiniteSets, TLC

(* ------------------------------ bounds --------------------------------- *)
\* number of directories of the load list (AMENT_PREFIX_PATH entries)
MaxDirs == 2
\* number of definition files one directory walk visits
MaxDirLen == 2

(* ------------------------ key expressions ------------------------------ *)
\* chunks of the key expression language
SingleWild == "*"
DoubleWild == "**"
\* chunks starting with '@' are verbatim chunks
VerbatimChunks == {"@pkg"}
\* chunks holding a character that a key expression forbids ('#', '?', '$')
ForbiddenChunks == {"a#b"}

IsWild(c) == c \in {SingleWild, DoubleWild}

\* OwnedKeyExpr::try_from / KeyExpr::try_from of a string, seen as the chunks
\* between its '/' (the empty string is the single empty chunk): non-empty
\* chunks, no forbidden character, canonical form (no "**/**", no "**/*").
KeyExprTryFrom(s) ==
    /\ Len(s) > 0
    /\ \A i \in 1..Len(s) : s[i] # "" /\ s[i] \notin ForbiddenChunks
    /\ \A i \in 1..(Len(s) - 1) : ~(s[i] = DoubleWild /\ IsWild(s[i + 1]))

Tail2(s) == SubSeq(s, 2, Len(s))

has_verbatim(s) == \E i \in 1..Len(s) : s[i] \in VerbatimChunks

\* inclusion of one chunk by a chunk that is not "**"
non_double_wild_chunk_includes(lchunk, rchunk) ==
    IF lchunk = rchunk THEN TRUE
    ELSE IF lchunk \in VerbatimChunks \/ rchunk \in VerbatimChunks THEN FALSE
    ELSE lchunk = SingleWild

\* keyexpr::includes(left, right): every key matched by right is matched by left
RECURSIVE includes(_, _)
includes(left, right) ==
    IF left = <<>> THEN right = <<>>
    ELSE IF left[1] = DoubleWild
    THEN \/ Len(left) = 1 /\ ~has_verbatim(right)
         \/ Len(left) > 1 /\ includes(Tail2(left), right)
         \/ /\ right # <<>>
            /\ right[1] \notin VerbatimChunks
            /\ Len(right) > 1
            /\ includes(left, Tail2(right))
    ELSE /\ right # <<>>
         /\ right[1] # DoubleWild
         /\ non_double_wild_chunk_includes(left[1], right[1])
         /\ includes(Tail2(left), Tail2(right))

(* ---------------------------- type kinds ------------------------------- *)
TypeKind == {"MSG", "SRV", "ACTION"}

\* TypeKind::try_from(&str), ascii case insensitive; "" when no variant matches
TypeKindTryFrom(s) ==
    IF s \in {"msg", "MSG", "Msg"} THEN "MSG"
    ELSE IF s \in {"srv", "SRV"} THEN "SRV"
    ELSE IF s \in {"action", "ACTION"} THEN "ACTION"
    ELSE ""

\* kind of a walked file from its extension; "" is the `continue` branch
KindOfExtension(ext) ==
    IF ext = "msg" THEN "MSG"
    ELSE IF ext = "srv" THEN "SRV"
    ELSE IF ext = "action" THEN "ACTION"
    ELSE ""

(* --------------------------- the file system --------------------------- *)
\* A HashedTypeDescription as deserialized from a .json file. Only the parts
\* the registry reads are kept: the own type name, the names of the
\* referenced type descriptions (in declaration order) and the type hashes.
Name(a, b, c) == <<a, b, c>>
TNH(n, h) == [type_name |-> n, hash_string |-> h]
Desc(n, refs, hashes) ==
    [type_description_msg |->
        [type_description |-> [type_name |-> n],
         referenced_type_descriptions |-> [i \in 1..Len(refs) |-> [type_name |-> refs[i]]]],
     type_hashes |-> hashes]

NoDesc == Desc(<<>>, <<>>, <<>>)

\* The .json files on disk, by path. state is "ok", "unreadable" (read_to_string
\* fails) or "malformed" (serde_json rejects the text or an unknown field).
JsonOk(d) == [state |-> "ok", desc |-> d]
JsonFiles ==
    [ a1 |-> JsonOk(Desc(Name("pkg", "msg", "A"),
                         << Name("pkg", "msg", "B"), Name("pkg", "msg", "C"),
                            Name("other", "SRV", "S"), Name("pkg", "msg", "B") >>,
                         << TNH(Name("pkg", "msg", "B"), "hB"), TNH(Name("pkg", "msg", "A"), "h1"),
                            TNH(Name("pkg", "msg", "A"), "h9") >>)),
      a2 |-> JsonOk(Desc(Name("pkg", "msg", "A"), <<>>, << TNH(Name("pkg", "msg", "A"), "h1") >>)),
      a3 |-> JsonOk(Desc(Name("pkg", "msg", "A"), <<>>, << TNH(Name("pkg", "msg", "A"), "h2") >>)),
      b1 |-> JsonOk(Desc(Name("pkg", "msg", "B"), <<>>, << TNH(Name("pkg", "msg", "B"), "hB") >>)),
      s1 |-> JsonOk(Desc(Name("other", "SRV", "S"), << <<"">>, Name("pkg", "msg", "B") >>,
                         << TNH(Name("other", "SRV", "S"), "hS") >>)),
      w1 |-> JsonOk(Desc(Name("**", "msg", "A"), <<>>, << TNH(Name("**", "msg", "A"), "hW") >>)),
      v1 |-> JsonOk(Desc(Name("@pkg", "msg", "A"), <<>>, << TNH(Name("@pkg", "msg", "A"), "hV") >>)),
      d1 |-> JsonOk(Desc(Name("pkg", "msg", "D"), <<>>, << TNH(Name("pkg", "msg", "D"), "hD") >>)),
      e1 |-> JsonOk(Desc(<<"">>, <<>>, << TNH(<<"">>, "hE") >>)),
      e2 |-> JsonOk(Desc(Name("pkg", "", "A"), <<>>, << TNH(Name("pkg", "", "A"), "hE") >>)),
      t2 |-> JsonOk(Desc(<<"pkg", "A">>, <<>>, << TNH(<<"pkg", "A">>, "hT") >>)),
      k1 |-> JsonOk(Desc(Name("pkg", "foo", "A"), <<>>, << TNH(Name("pkg", "foo", "A"), "hK") >>)),
      n1 |-> JsonOk(Desc(Name("pkg", "msg", "N"), <<>>, << TNH(Name("pkg", "msg", "B"), "hB") >>)),
      u1 |-> [state |-> "unreadable", desc |-> NoDesc],
      m1 |-> [state |-> "malformed", desc |-> NoDesc] ]

\* The files a directory walk can meet, by path: the stem shared with the
\* .json sibling, the extension, and the text (readable or not).
\* b1_action and readme_txt sit next to b1.json; x1_msg has no .json sibling.
DefFile(stem, ext, readable, content) ==
    [stem |-> stem, ext |-> ext, readable |-> readable, content |-> content]
DefFiles ==
    [ a1_msg |-> DefFile("a1", "msg", TRUE, <<"textA1">>),
      a2_msg |-> DefFile("a2", "msg", TRUE, <<"textA2">>),
      a3_msg |-> DefFile("a3", "msg", TRUE, <<"textA3">>),
      b1_msg |-> DefFile("b1", "msg", TRUE, <<"textB">>),
      s1_srv |-> DefFile("s1", "srv", TRUE, <<"textS">>),
      w1_msg |-> DefFile("w1", "msg", TRUE, <<"textW">>),
      v1_msg |-> DefFile("v1", "msg", TRUE, <<"textV">>),
      d1_msg |-> DefFile("d1", "msg", FALSE, <<>>),
      e1_msg |-> DefFile("e1", "msg", TRUE, <<"textE">>),
      e2_msg |-> DefFile("e2", "msg", TRUE, <<"textE">>),
      t2_msg |-> DefFile("t2", "msg", TRUE, <<"textT">>),
      k1_msg |-> DefFile("k1", "msg", TRUE, <<"textK">>),
      n1_msg |-> DefFile("n1", "msg", TRUE, <<"textN">>),
      u1_msg |-> DefFile("u1", "msg", TRUE, <<"textU">>),
      m1_msg |-> DefFile("m1", "msg", TRUE, <<"textM">>),
      x1_msg |-> DefFile("x1", "msg", TRUE, <<"textX">>),
      b1_action |-> DefFile("b1", "action", TRUE, <<"textBaction">>),
      readme_txt |-> DefFile("b1", "txt", TRUE, <<"readme">>) ]

Paths == DOMAIN DefFiles

\* PathBuf::with_extension("json")
with_extension_json(definition_path) == DefFiles[definition_path].stem \o ".json"
\* Path::exists of a .json path, and the file found there
json_exists(json_path) == \E k \in DOMAIN JsonFiles : k \o ".json" = json_path
read_json(json_path) == JsonFiles[CHOOSE k \in DOMAIN JsonFiles : k \o ".json" = json_path]

(* ------------------------------ TypeInfo ------------------------------- *)
NoErr == [kind |-> "", name |-> <<>>, paths |-> <<>>]
Err(kind, name, paths) == [kind |-> kind, name |-> name, paths |-> paths]

\* position of the first entry of type_hashes with this type name, 0 if none
RECURSIVE FindHash(_, _, _)
FindHash(hashes, full_name, i) ==
    IF i > Len(hashes) THEN 0
    ELSE IF hashes[i].type_name = full_name THEN i
    ELSE FindHash(hashes, full_name, i + 1)

\* TypeInfo::new with the two path arguments exchanged
TypeInfoNew_swapped_paths(full_name, kind, type_description, definition_content, json_path, definition_path) ==
    IF Len(full_name) # 3
    THEN [err |-> Err("InvalidTypeNameFormat", full_name, <<>>), info |-> {}]
    ELSE IF TypeKindTryFrom(full_name[2]) = ""
    THEN [err |-> Err("InvalidTypeKind", full_name, <<>>), info |-> {}]
    ELSE IF TypeKindTryFrom(full_name[2]) # kind
    THEN [err |-> Err("TypeKindMismatch", full_name, <<>>), info |-> {}]
    ELSE IF FindHash(type_description.type_hashes, full_name, 1) = 0
    THEN [err |-> Err("NoHashFound", full_name, <<json_path>>), info |-> {}]
    ELSE [err |-> NoErr,
          info |-> {[full_name |-> full_name,
                     package_name |-> full_name[1],
                     short_name |-> full_name[3],
                     kind |-> kind,
                     type_description |-> type_description,
                     type_hash |-> type_description.type_hashes[
                                       FindHash(type_description.type_hashes, full_name, 1)].hash_string,
                     json_path |-> definition_path,
                     definition_path |-> json_path,
                     definition_content |-> definition_content]}]

\* TypeInfo::new without the comparison of the kind element with the kind
TypeInfoNew_no_kind_check(full_name, kind, type_description, definition_content, json_path, definition_path) ==
    IF Len(full_name) # 3
    THEN [err |-> Err("InvalidTypeNameFormat", full_name, <<>>), info |-> {}]
    ELSE IF TypeKindTryFrom(full_name[2]) = ""
    THEN [err |-> Err("InvalidTypeKind", full_name, <<>>), info |-> {}]
    ELSE IF FindHash(type_description.type_hashes, full_name, 1) = 0
    THEN [err |-> Err("NoHashFound", full_name, <<json_path>>), info |-> {}]
    ELSE [err |-> NoErr,
          info |-> {[full_name |-> full_name,
                     package_name |-> full_name[1],
                     short_name |-> full_name[3],
                     kind |-> kind,
                     type_description |-> type_description,
                     type_hash |-> type_description.type_hashes[
                                       FindHash(type_description.type_hashes, full_name, 1)].hash_string,
                     json_path |-> json_path,
                     definition_path |-> definition_path,
                     definition_content |-> definition_content]}]

\* TypeInfo::new: [err, info] where info is the set holding the record built
TypeInfoNew(full_name, kind, type_description, definition_content, json_path, definition_path) ==
    IF Len(full_name) # 3
    THEN [err |-> Err("InvalidTypeNameFormat", full_name, <<>>), info |-> {}]
    ELSE IF TypeKindTryFrom(full_name[2]) = ""
    THEN [err |-> Err("InvalidTypeKind", full_name, <<>>), info |-> {}]
    ELSE IF TypeKindTryFrom(full_name[2]) # kind
    THEN [err |-> Err("TypeKindMismatch", full_name, <<>>), info |-> {}]
    ELSE IF FindHash(type_description.type_hashes, full_name, 1) = 0
    THEN [err |-> Err("NoHashFound", full_name, <<json_path>>), info |-> {}]
    ELSE [err |-> NoErr,
          info |-> {[full_name |-> full_name,
                     package_name |-> full_name[1],
                     short_name |-> full_name[3],
                     kind |-> kind,
                     type_description |-> type_description,
                     type_hash |-> type_description.type_hashes[
                                       FindHash(type_description.type_hashes, full_name, 1)].hash_string,
                     json_path |-> json_path,
                     definition_path |-> definition_path,
                     definition_content |-> definition_content]}]

\* TypeInfo::get_short_type_name: "<package>/<short name>"
get_short_type_name(t) == <<t.package_name, "/", t.short_name>>

(* --------------------------- the KeBoxTree ----------------------------- *)
\* The tree is a function from the key of each node (the chunks from the
\* root) to its weight: the empty set, or the set holding its TypeInfo.
EmptyTree == [k \in {} |-> {}]

Prefixes(key) == {SubSeq(key, 1, n) : n \in 1..Len(key)}

\* KeBoxTree::weight_at: the weight of the node at exactly this key
weight_at(tree, key) == IF key \in DOMAIN tree THEN tree[key] ELSE {}

\* KeBoxTree::insert: creates the nodes down to the key, sets the weight
insert(tree, key, info) ==
    [k \in DOMAIN tree \cup Prefixes(key) |->
        IF k = key THEN {info}
        ELSE IF k \in DOMAIN tree THEN tree[k] ELSE {}]

\* the records held by the tree
Records(tree) == UNION {tree[k] : k \in DOMAIN tree}

(* ----------------------------- the loader ------------------------------ *)
\* Registry::load_type_from_file up to the construction of the TypeInfo:
\* [err, info], info the set holding the record built
build_type_info(definition_path, kind) ==
    LET json_path == with_extension_json(definition_path) IN
    IF ~json_exists(json_path)
    THEN [err |-> Err("NoJson", <<>>, <<definition_path>>), info |-> {}]
    ELSE LET json == read_json(json_path) IN
    IF json.state = "unreadable"
    THEN [err |-> Err("ReadJson", <<>>, <<json_path>>), info |-> {}]
    ELSE IF json.state = "malformed"
    THEN [err |-> Err("ParseJson", <<>>, <<json_path>>), info |-> {}]
    ELSE LET type_description == json.desc
             type_name == type_description.type_description_msg.type_description.type_name IN
    IF ~KeyExprTryFrom(type_name)
    THEN [err |-> Err("InvalidTypeName", type_name, <<json_path>>), info |-> {}]
    ELSE IF ~DefFiles[definition_path].readable
    THEN [err |-> Err("ReadDefinition", <<>>, <<definition_path>>), info |-> {}]
    ELSE TypeInfoNew(type_name, kind, type_description,
                     DefFiles[definition_path].content, json_path, definition_path)

\* load_type_from_file with a conflicting hash replacing the stored record
load_type_from_file_overwrite(tree, definition_path, kind) ==
    LET built == build_type_info(definition_path, kind) IN
    IF built.info = {}
    THEN [types |-> tree, res |-> built.err]
    ELSE LET type_info == CHOOSE t \in built.info : TRUE
             existing == weight_at(tree, type_info.full_name) IN
    IF existing # {} /\ (CHOOSE e \in existing : TRUE).type_hash = type_info.type_hash
    THEN [types |-> tree, res |-> NoErr]
    ELSE [types |-> insert(tree, type_info.full_name, type_info),
          res |-> IF existing = {} THEN NoErr
                  ELSE Err("ConflictingHash", type_info.full_name,
                           <<(CHOOSE e \in existing : TRUE).json_path, type_info.json_path>>)]

\* load_type_from_file with the already-loaded check after the insertion
load_type_from_file_replace(tree, definition_path, kind) ==
    LET built == build_type_info(definition_path, kind) IN
    IF built.info = {}
    THEN [types |-> tree, res |-> built.err]
    ELSE LET type_info == CHOOSE t \in built.info : TRUE
             existing == weight_at(tree, type_info.full_name) IN
    IF existing # {} /\ (CHOOSE e \in existing : TRUE).type_hash # type_info.type_hash
    THEN [types |-> tree,
          res |-> Err("ConflictingHash", type_info.full_name,
                      <<(CHOOSE e \in existing : TRUE).json_path, type_info.json_path>>)]
    ELSE [types |-> insert(tree, type_info.full_name, type_info), res |-> NoErr]

\* Registry::load_type_from_file: [types, res], res = NoErr for Ok(())
load_type_from_file(tree, definition_path, kind) ==
    LET built == build_type_info(definition_path, kind) IN
    IF built.info = {}
    THEN [types |-> tree, res |-> built.err]
    ELSE LET type_info == CHOOSE t \in built.info : TRUE
             existing == weight_at(tree, type_info.full_name) IN
    IF existing # {}
    THEN IF (CHOOSE e \in existing : TRUE).type_hash = type_info.type_hash
         THEN [types |-> tree, res |-> NoErr]
         ELSE [types |-> tree,
               res |-> Err("ConflictingHash", type_info.full_name,
                           <<(CHOOSE e \in existing : TRUE).json_path, type_info.json_path>>)]
    ELSE [types |-> insert(tree, type_info.full_name, type_info), res |-> NoErr]

(* ----------------------------- the queries ----------------------------- *)
\* the elements of a finite set as a sequence, in the tree's iteration order
RECURSIVE SetToSeq(_)
SetToSeq(S) ==
    IF S = {} THEN <<>>
    ELSE LET x == CHOOSE y \in S : TRUE IN <<x>> \o SetToSeq(S \ {x})

\* KeBoxTree::included_nodes: the nodes whose key the key expression includes
included_nodes(tree, ke) == {k \in DOMAIN tree : includes(ke, k)}

\* Registry::get_types: the weights of the included nodes that have one
get_types(tree, ke) ==
    SetToSeq(UNION {tree[k] : k \in included_nodes(tree, ke)})

SEPARATOR == "\n====\n"

\* the loop of Registry::get_mcap_schema over the referenced type
\* descriptions from position i on; KeyExpr::try_from(...).expect panics
RECURSIVE mcap_deps(_, _, _, _)
mcap_deps(tree, deps, i, result) ==
    IF i > Len(deps) THEN [panic |-> FALSE, text |-> result]
    ELSE IF ~KeyExprTryFrom(deps[i].type_name) THEN [panic |-> TRUE, text |-> <<>>]
    ELSE LET found == weight_at(tree, deps[i].type_name) IN
         IF found # {}
         THEN LET dep_info == CHOOSE d \in found : TRUE IN
              mcap_deps(tree, deps, i + 1,
                        result \o <<SEPARATOR>> \o <<dep_info.kind, ": ">>
                               \o get_short_type_name(dep_info) \o <<"\n">>
                               \o dep_info.definition_content)
         ELSE mcap_deps(tree, deps, i + 1, result)

\* Registry::get_mcap_schema
get_mcap_schema(tree, t) ==
    mcap_deps(tree, t.type_description.type_description_msg.referenced_type_descriptions,
              1, t.definition_content)

(* ------------------------ the state of the program --------------------- *)
VARIABLES
    types,      \* Registry.types
    size,       \* Registry.size
    pc,         \* position of main: "build", "walk", "serve", "panicked"
    dirs,       \* number of directories of the load list already loaded
    count,      \* local count of load_types_from_dir
    visited,    \* paths already produced by the current walk
    last,       \* the entry the walk handled last, and what the load returned
    query,      \* the query being handled, or handled last
    replies,    \* the replies this query got so far, in order
    typesQ,     \* number of queries waiting in the channel of the types queryable
    envQ,       \* number of queries waiting in the channel of the env queryable
    hpc,        \* position of the handler: "idle", "reply_err", "replying", "env"
    todo,       \* the matched records the reply loop has not reached yet
    input,      \* the JSON value given as a field type id
    parsed      \* what deserializing it returned

serveVars == <<query, replies, typesQ, envQ, hpc, todo>>
parseVars == <<input, parsed>>
vars == <<types, size, pc, dirs, count, visited, last, serveVars, parseVars>>

NoLast == [path |-> "", called |-> FALSE, res |-> NoErr]
NoQuery == [kind |-> "", ke |-> <<>>, format |-> <<>>]
NoInput == [kind |-> "", s |-> "", style |-> "", n |-> 0]
NotParsed == [done |-> FALSE, ok |-> FALSE, id |-> 0]

\* the key expressions get_types is asked for
Patterns ==
    { <<"**">>, <<"*">>, <<"*", "**">>, <<"*", "*", "*">>,
      <<"pkg", "msg", "**">>, <<"pkg", "**">>, <<"pkg", "msg", "*">>, <<"pkg", "*", "*">>,
      <<"pkg", "msg", "A">>, <<"pkg", "msg", "B">>, <<"pkg", "msg", "C">>, <<"pkg", "msg">>,
      <<"*", "msg", "A">>, <<"**", "msg", "A">>, <<"**", "A">>, <<"*", "*", "A">>,
      <<"other", "**">>, <<"other", "SRV", "S">>, <<"other", "srv", "S">>, <<"**", "S">>,
      <<"@pkg", "msg", "A">>, <<"@pkg", "**">>, <<"pkg", "msg", "A", "**">> }

InitRegistry ==
    /\ types = EmptyTree
    /\ size = 0
    /\ pc = "build"
    /\ dirs = 0
    /\ count = 0
    /\ visited = {}
    /\ last = NoLast
    /\ query = NoQuery
    /\ replies = <<>>
    /\ typesQ = 0
    /\ envQ = 0
    /\ hpc = "idle"
    /\ todo = <<>>

Init ==
    /\ InitRegistry
    /\ input = NoInput
    /\ parsed = NotParsed

\* main: the next directory of the load list; load_types_from_dir starts
StartDir ==
    /\ pc = "build"
    /\ dirs < MaxDirs
    /\ pc' = "walk"
    /\ count' = 0
    /\ visited' = {}
    /\ last' = NoLast
    /\ UNCHANGED <<types, size, dirs, serveVars, parseVars>>

\* the loop iteration with the error of a file propagated out of the walk
VisitEntry_abort(path) ==
    /\ pc = "walk"
    /\ path \notin visited
    /\ Cardinality(visited) < MaxDirLen
    /\ visited' = visited \cup {path}
    /\ LET kind == KindOfExtension(DefFiles[path].ext) IN
       IF kind = ""
       THEN /\ last' = [path |-> path, called |-> FALSE, res |-> NoErr]
            /\ pc' = pc
            /\ UNCHANGED <<types, count>>
       ELSE LET r == load_type_from_file(types, path, kind) IN
            /\ types' = r.types
            /\ count' = IF r.res = NoErr THEN count + 1 ELSE count
            /\ last' = [path |-> path, called |-> TRUE, res |-> r.res]
            /\ pc' = IF r.res = NoErr THEN pc ELSE "build"
    /\ UNCHANGED <<size, dirs, serveVars, parseVars>>

\* load_types_from_dir: one iteration of the loop over the walked files
VisitEntry(path) ==
    /\ pc = "walk"
    /\ path \notin visited
    /\ Cardinality(visited) < MaxDirLen
    /\ visited' = visited \cup {path}
    /\ LET kind == KindOfExtension(DefFiles[path].ext) IN
       IF kind = ""
       THEN /\ last' = [path |-> path, called |-> FALSE, res |-> NoErr]
            /\ UNCHANGED <<types, count>>
       ELSE LET r == load_type_from_file(types, path, kind) IN
            /\ types' = r.types
            /\ count' = IF r.res = NoErr THEN count + 1 ELSE count
            /\ last' = [path |-> path, called |-> TRUE, res |-> r.res]
    /\ UNCHANGED <<size, pc, dirs, serveVars, parseVars>>

\* load_types_from_dir: the walk is over, the count is added to the size and
\* the locals of the call are gone
EndDir ==
    /\ pc = "walk"
    /\ size' = size + count
    /\ dirs' = dirs + 1
    /\ pc' = "build"
    /\ count' = 0
    /\ visited' = {}
    /\ last' = NoLast
    /\ UNCHANGED <<types, serveVars, parseVars>>

\* Ready with the queryables declared while a directory is being walked
Ready_early ==
    /\ pc \in {"build", "walk"}
    /\ dirs >= 1
    /\ pc' = "serve"
    /\ UNCHANGED <<types, size, dirs, count, visited, last, serveVars, parseVars>>

\* main: the load list is exhausted, the queryables are declared
Ready ==
    /\ pc = "build"
    /\ dirs >= 1
    /\ pc' = "serve"
    /\ UNCHANGED <<types, size, dirs, count, visited, last, serveVars, parseVars>>

\* the loader: main up to the declaration of the queryables
Next ==
    \/ StartDir
    \/ \E path \in Paths : VisitEntry(path)
    \/ EndDir
    \/ Ready

Spec == Init /\ [][Next]_vars

(* ----------------------------- the serving ----------------------------- *)
\* number of queries a queryable's channel holds
MaxPending == 1

\* ReplyFormat::VARIANTS
ReplyFormatVariants ==
    <<"TypeDescription", "FullTypeDescription", "Definition", "Mcap", "Hash", "Path">>

\* ReplyFormat::from_str with an unknown token falling back to the default
ReplyFormatFromStr_default(f) ==
    IF f \in {"FullTypeDescription", "fulltypedescription"} THEN "FullTypeDescription"
    ELSE IF f \in {"Definition", "definition"} THEN "Definition"
    ELSE IF f \in {"Mcap", "mcap", "MCAP"} THEN "Mcap"
    ELSE IF f \in {"Hash", "hash"} THEN "Hash"
    ELSE IF f \in {"Path", "path"} THEN "Path"
    ELSE "TypeDescription"

\* ReplyFormat::from_str, ascii case insensitive; "" when no variant matches
ReplyFormatFromStr(f) ==
    IF f \in {"TypeDescription", "typedescription"} THEN "TypeDescription"
    ELSE IF f \in {"FullTypeDescription", "fulltypedescription"} THEN "FullTypeDescription"
    ELSE IF f \in {"Definition", "definition"} THEN "Definition"
    ELSE IF f \in {"Mcap", "mcap", "MCAP"} THEN "Mcap"
    ELSE IF f \in {"Hash", "hash"} THEN "Hash"
    ELSE IF f \in {"Path", "path"} THEN "Path"
    ELSE ""

\* the format of a query: the default when the parameter is absent
FormatOf(q) == IF q.format = <<>> THEN "TypeDescription" ELSE ReplyFormatFromStr(q.format[1])

\* the values of the `format` parameter of the queries received (<<>>: absent)
FormatParams ==
    { <<>>, <<"TypeDescription">>, <<"fulltypedescription">>, <<"definition">>, <<"mcap">>,
      <<"MCAP">>, <<"hash">>, <<"path">>, <<"bogus">>, <<"flattened">>, <<"full">>, <<"">> }

\* the type_name part of the key expressions of the queries received
\* (<<>>: the query is on "@ros2_types" alone, type_name() is None)
ServePatterns == { <<>>, <<"**">>, <<"pkg", "msg", "A">>, <<"pkg", "msg", "C">> }

\* the definition files of the directories loaded before serving
ServePaths == {"a1_msg", "b1_msg", "s1_srv"}

\* ALLOWED_ENV_VARS
ALLOWED_ENV_VARS ==
    {"ROS_DOMAIN_ID", "RMW_IMPLEMENTATION", "ROS_VERSION", "ROS_PYTHON_VERSION",
     "ROS_DISTRO", "AMENT_PREFIX_PATH"}

\* the environment of the process: std::env::var_os is Some on its domain
Environment == [ROS_DISTRO |-> "jazzy", AMENT_PREFIX_PATH |-> "/opt/ros/jazzy", HOME |-> "/root"]

\* the env_var part of the key expressions of the env queries received
EnvQueries == {"ROS_DISTRO", "ROS_VERSION", "HOME"}

Reply(err, key, encoding, json, text, delivered) ==
    [err |-> err, key |-> key, encoding |-> encoding, json |-> json, text |-> text,
     delivered |-> delivered]

\* PayloadOf with the Path format giving the path of the description file
PayloadOf_json_path(tree, format, t) ==
    IF format = "TypeDescription"
    THEN [panic |-> FALSE, encoding |-> "application/json", text |-> <<>>,
          json |-> {t.type_description.type_description_msg.type_description}]
    ELSE IF format = "FullTypeDescription"
    THEN [panic |-> FALSE, encoding |-> "application/json", text |-> <<>>,
          json |-> {t.type_description.type_description_msg}]
    ELSE IF format = "Definition"
    THEN [panic |-> FALSE, encoding |-> "text/plain", text |-> t.definition_content, json |-> {}]
    ELSE IF format = "Mcap"
    THEN [panic |-> get_mcap_schema(tree, t).panic, encoding |-> "text/plain",
          text |-> get_mcap_schema(tree, t).text, json |-> {}]
    ELSE IF format = "Hash"
    THEN [panic |-> FALSE, encoding |-> "text/plain", text |-> <<t.type_hash>>, json |-> {}]
    ELSE [panic |-> FALSE, encoding |-> "text/plain", text |-> <<t.json_path>>, json |-> {}]

\* the payload handle_ros2_types_query selects for a record; serde_json::to_string
\* of a value is the set holding it; panic is the panic of get_mcap_schema
PayloadOf(tree, format, t) ==
    IF format = "TypeDescription"
    THEN [panic |-> FALSE, encoding |-> "application/json", text |-> <<>>,
          json |-> {t.type_description.type_description_msg.type_description}]
    ELSE IF format = "FullTypeDescription"
    THEN [panic |-> FALSE, encoding |-> "application/json", text |-> <<>>,
          json |-> {t.type_description.type_description_msg}]
    ELSE IF format = "Definition"
    THEN [panic |-> FALSE, encoding |-> "text/plain", text |-> t.definition_content, json |-> {}]
    ELSE IF format = "Mcap"
    THEN [panic |-> get_mcap_schema(tree, t).panic, encoding |-> "text/plain",
          text |-> get_mcap_schema(tree, t).text, json |-> {}]
    ELSE IF format = "Hash"
    THEN [panic |-> FALSE, encoding |-> "text/plain", text |-> <<t.type_hash>>, json |-> {}]
    ELSE [panic |-> FALSE, encoding |-> "text/plain", text |-> <<t.definition_path>>, json |-> {}]

\* a query arrives in the channel of the types queryable
ReceiveTypesQuery ==
    /\ pc = "serve"
    /\ typesQ < MaxPending
    /\ typesQ' = typesQ + 1
    /\ UNCHANGED <<types, size, pc, dirs, count, visited, last, query, replies, envQ, hpc, todo,
                   parseVars>>

\* a query arrives in the channel of the env queryable
ReceiveEnvQuery ==
    /\ pc = "serve"
    /\ envQ < MaxPending
    /\ envQ' = envQ + 1
    /\ UNCHANGED <<types, size, pc, dirs, count, visited, last, query, replies, typesQ, hpc, todo,
                   parseVars>>

\* main loop: select! yields a query of the types queryable;
\* handle_ros2_types_query up to its first reply
TakeTypesQuery(ke, format) ==
    /\ pc = "serve"
    /\ hpc = "idle"
    /\ typesQ > 0
    /\ typesQ' = typesQ - 1
    /\ query' = [kind |-> "types", ke |-> ke, format |-> format]
    /\ replies' = <<>>
    /\ IF FormatOf([kind |-> "types", ke |-> ke, format |-> format]) = ""
       THEN hpc' = "reply_err" /\ todo' = <<>>
       ELSE /\ hpc' = "replying"
            /\ todo' = IF ke = <<>> THEN <<>> ELSE get_types(types, ke)
    /\ UNCHANGED <<types, size, pc, dirs, count, visited, last, envQ, parseVars>>

\* handle_ros2_types_query: the reply_err for an unknown format, then return
ReplyErr(delivered) ==
    /\ pc = "serve"
    /\ hpc = "reply_err"
    /\ replies' = Append(replies,
           Reply(TRUE, <<>>, "zenoh/bytes", {},
                 <<"Unknown format", query.format[1], "accepted values are">>
                     \o ReplyFormatVariants,
                 delivered))
    /\ hpc' = "idle"
    /\ UNCHANGED <<types, size, pc, dirs, count, visited, last, query, typesQ, envQ, todo,
                   parseVars>>

\* handle_ros2_types_query: one iteration of the loop over the matched records
ReplyNext(delivered) ==
    /\ pc = "serve"
    /\ hpc = "replying"
    /\ todo # <<>>
    /\ LET type_info == Head(todo)
           payload == PayloadOf(types, FormatOf(query), type_info) IN
       IF payload.panic
       THEN /\ pc' = "panicked"
            /\ UNCHANGED <<replies, todo>>
       ELSE /\ replies' = Append(replies,
                   Reply(FALSE, <<"@ros2_types">> \o type_info.full_name, payload.encoding,
                         payload.json, payload.text, delivered))
            /\ todo' = Tail(todo)
            /\ pc' = pc
    /\ UNCHANGED <<types, size, dirs, count, visited, last, query, typesQ, envQ, hpc, parseVars>>

\* handle_ros2_types_query: the loop is over, the handler returns
ReturnTypes ==
    /\ pc = "serve"
    /\ hpc = "replying"
    /\ todo = <<>>
    /\ hpc' = "idle"
    /\ UNCHANGED <<types, size, pc, dirs, count, visited, last, query, replies, typesQ, envQ, todo,
                   parseVars>>

\* main loop: select! yields a query of the env queryable
TakeEnvQuery(env_var) ==
    /\ pc = "serve"
    /\ hpc = "idle"
    /\ envQ > 0
    /\ envQ' = envQ - 1
    /\ query' = [kind |-> "env", ke |-> <<env_var>>, format |-> <<>>]
    /\ replies' = <<>>
    /\ hpc' = "env"
    /\ UNCHANGED <<types, size, pc, dirs, count, visited, last, typesQ, todo, parseVars>>

\* handle_ros2_env_query
ReplyEnv(delivered) ==
    /\ pc = "serve"
    /\ hpc = "env"
    /\ LET env_var == query.ke[1] IN
       IF env_var \in ALLOWED_ENV_VARS
       THEN IF env_var \in DOMAIN Environment
            THEN replies' = Append(replies,
                     Reply(FALSE, <<"@ros2_env", env_var>>, "text/plain", {},
                           <<Environment[env_var]>>, delivered))
            ELSE replies' = replies
       ELSE replies' = Append(replies,
                Reply(TRUE, <<>>, "text/plain", {},
                      <<"Environment variable", env_var, "cannot be queried">>, delivered))
    /\ hpc' = "idle"
    /\ UNCHANGED <<types, size, pc, dirs, count, visited, last, query, typesQ, envQ, todo,
                   parseVars>>

\* the whole program, loading the directories that hold ServePaths
NextServe ==
    \/ StartDir
    \/ \E path \in ServePaths : VisitEntry(path)
    \/ EndDir
    \/ Ready
    \/ ReceiveTypesQuery
    \/ ReceiveEnvQuery
    \/ \E ke \in ServePatterns, format \in FormatParams : TakeTypesQuery(ke, format)
    \/ \E delivered \in BOOLEAN : ReplyErr(delivered)
    \/ \E delivered \in BOOLEAN : ReplyNext(delivered)
    \/ ReturnTypes
    \/ \E env_var \in EnvQueries : TakeEnvQuery(env_var)
    \/ \E delivered \in BOOLEAN : ReplyEnv(delivered)

SpecServe == Init /\ [][NextServe]_vars

\* each reply operation completes, and select! yields every queryable whose
\* channel holds a query again and again
FairSpecServe ==
    /\ SpecServe
    /\ WF_vars(\E delivered \in BOOLEAN : ReplyErr(delivered))
    /\ WF_vars(\E delivered \in BOOLEAN : ReplyNext(delivered))
    /\ WF_vars(ReturnTypes)
    /\ WF_vars(\E delivered \in BOOLEAN : ReplyEnv(delivered))
    /\ SF_vars(\E ke \in ServePatterns, format \in FormatParams : TakeTypesQuery(ke, format))
    /\ SF_vars(\E env_var \in EnvQueries : TakeEnvQuery(env_var))

(* ----------------------------- FieldTypeId ----------------------------- *)
\* largest integer given as a field type id
MaxCode == 170

V(name, repr) == [name |-> name, repr |-> repr]
\* enum FieldTypeId: the variants with their discriminants
FieldTypeId ==
    { V("NotSet", 0), V("NestedType", 1), V("Int8", 2), V("UInt8", 3), V("Int16", 4), V("UInt16", 5),
      V("Int32", 6), V("UInt32", 7), V("Int64", 8), V("UInt64", 9), V("Float", 10), V("Double", 11),
      V("LongDouble", 12), V("Char", 13), V("WChar", 14), V("Boolean", 15), V("Byte", 16),
      V("String", 17), V("WString", 18), V("FixedString", 19), V("FixedWString", 20), V("BoundedString", 21),
      V("BoundedWString", 22), V("NestedTypeArray", 49), V("Int8Array", 50), V("UInt8Array", 51),
      V("Int16Array", 52), V("UInt16Array", 53), V("Int32Array", 54), V("UInt32Array", 55),
      V("Int64Array", 56), V("UInt64Array", 57), V("FloatArray", 58), V("DoubleArray", 59),
      V("LongDoubleArray", 60), V("CharArray", 61), V("WCharArray", 62), V("BooleanArray", 63),
      V("ByteArray", 64), V("StringArray", 65), V("WStringArray", 66), V("FixedStringArray", 67),
      V("FixedWStringArray", 68), V("BoundedStringArray", 69), V("BoundedWStringArray", 70),
      V("NestedTypeBoundedSequence", 97), V("Int8BoundedSequence", 98), V("UInt8BoundedSequence", 99),
      V("Int16BoundedSequence", 100), V("UInt16BoundedSequence", 101), V("Int32BoundedSequence", 102),
      V("UInt32BoundedSequence", 103), V("Int64BoundedSequence", 104), V("UInt64BoundedSequence", 105),
      V("FloatBoundedSequence", 106), V("DoubleBoundedSequence", 107), V("LongDoubleBoundedSequence", 108),
      V("CharBoundedSequence", 109), V("WCharBoundedSequence", 110), V("BooleanBoundedSequence", 111),
      V("ByteBoundedSequence", 112), V("StringBoundedSequence", 113), V("WStringBoundedSequence", 114),
      V("FixedStringBoundedSequence", 115), V("FixedWStringBoundedSequence", 116), V("BoundedStringBoundedSequence", 117),
      V("BoundedWStringBoundedSequence", 118), V("NestedTypeUnboundedSequence", 145), V("Int8UnboundedSequence", 146),
      V("UInt8UnboundedSequence", 147), V("Int16UnboundedSequence", 148), V("UInt16UnboundedSequence", 149),
      V("Int32UnboundedSequence", 150), V("UInt32UnboundedSequence", 151), V("Int64UnboundedSequence", 152),
      V("UInt64UnboundedSequence", 153), V("FloatUnboundedSequence", 154), V("DoubleUnboundedSequence", 155),
      V("LongDoubleUnboundedSequence", 156), V("CharUnboundedSequence", 157), V("WCharUnboundedSequence", 158),
      V("BooleanUnboundedSequence", 159), V("ByteUnboundedSequence", 160), V("StringUnboundedSequence", 161),
      V("WStringUnboundedSequence", 162), V("FixedStringUnboundedSequence", 163), V("FixedWStringUnboundedSequence", 164),
      V("BoundedStringUnboundedSequence", 165), V("BoundedWStringUnboundedSequence", 166) }

\* A string is a name written in a case style: as it stands ("exact"), in
\* ASCII lower case ("lower") or in ASCII upper case ("upper"). Every variant
\* name holds an upper-case and a lower-case letter, so a string is equal to a
\* variant name only in the style "exact".
Str(name, style) == [kind |-> "str", s |-> name, style |-> style, n |-> 0]
U64(n) == [kind |-> "u64", s |-> "", style |-> "", n |-> n]
\* a JSON value that is neither a string nor an unsigned integer
Other(what) == [kind |-> "other", s |-> what, style |-> "", n |-> 0]

\* FieldTypeId::from_str (strum EnumString): the variant with exactly this name
from_str(value) ==
    {v \in FieldTypeId : v.name = value.s /\ value.style = "exact"}

\* FieldTypeId::from_repr (strum FromRepr): the variant with this discriminant
from_repr(value) ==
    {v \in FieldTypeId : v.repr = value}

Parsed(found) ==
    IF found = {} THEN [done |-> TRUE, ok |-> FALSE, id |-> 0]
    ELSE [done |-> TRUE, ok |-> TRUE, id |-> (CHOOSE v \in found : TRUE).repr]

\* FieldTypeId::deserialize: deserialize_any with FieldTypeIdVisitor, which
\* visits strings and unsigned integers and rejects every other value
deserialize(value) ==
    IF value.kind = "str" THEN Parsed(from_str(value))
    ELSE IF value.kind = "u64" THEN Parsed(from_repr(value.n))
    ELSE Parsed({})

\* the values given as a field type id
Inputs ==
    {U64(n) : n \in 0..MaxCode}
    \cup {Str(v.name, style) : v \in FieldTypeId, style \in {"exact", "lower", "upper"}}
    \cup {Str(name, "exact") : name \in {"", "Int", "Int24", "Int8 ", "2"}}
    \cup {Other(what) : what \in {"-1", "2.0", "true", "null"}}

InitParse == InitRegistry /\ input \in Inputs /\ parsed = NotParsed

\* serde parses a field type id of a description file
DeserializeFieldTypeId ==
    /\ ~parsed.done
    /\ parsed' = deserialize(input)
    /\ UNCHANGED <<types, size, pc, dirs, count, visited, last, serveVars, input>>

NextParse == DeserializeFieldTypeId

SpecParse == InitParse /\ [][NextParse]_vars

(* ------------------- facts about the files, for the claims ------------- *)
\* the description and the type name a definition file's .json sibling holds
FileDesc(path) == read_json(with_extension_json(path)).desc
FileName(path) == FileDesc(path).type_description_msg.type_description.type_name
JsonIsOk(path) ==
    /\ json_exists(with_extension_json(path))
    /\ read_json(with_extension_json(path)).state = "ok"

\* ASCII lower case of the chunks that differ from it
ToLower(c) ==
    IF c \in {"MSG", "Msg"} THEN "msg"
    ELSE IF c = "SRV" THEN "srv"
    ELSE IF c = "ACTION" THEN "action"
    ELSE c

\* the hash strings the description lists for its own type name
HashesOf(path) ==
    {FileDesc(path).type_hashes[i].hash_string :
        i \in {j \in 1..Len(FileDesc(path).type_hashes) :
                  FileDesc(path).type_hashes[j].type_name = FileName(path)}}

IsDefinitionFile(path) == DefFiles[path].ext \in {"msg", "srv", "action"}

\* the file breaks the record invariant
Violates(path) ==
    \/ Len(FileName(path)) # 3
    \/ ToLower(FileName(path)[2]) # DefFiles[path].ext
    \/ HashesOf(path) = {}

\* a definition file from which a record can be built
Valid(path) ==
    /\ IsDefinitionFile(path)
    /\ JsonIsOk(path)
    /\ KeyExprTryFrom(FileName(path))
    /\ DefFiles[path].readable
    /\ ~Violates(path)

\* the record a valid file describes, h being its type hash
ExpectedRecord(path, h) ==
    [full_name |-> FileName(path),
     package_name |-> FileName(path)[1],
     short_name |-> FileName(path)[3],
     kind |-> KindOfExtension(DefFiles[path].ext),
     type_description |-> FileDesc(path),
     type_hash |-> h,
     json_path |-> with_extension_json(path),
     definition_path |-> path,
     definition_content |-> DefFiles[path].content]

\* the record the code builds from a file it accepts
Loadable(path) ==
    /\ IsDefinitionFile(path)
    /\ build_type_info(path, KindOfExtension(DefFiles[path].ext)).info # {}
Built(path) ==
    CHOOSE t \in build_type_info(path, KindOfExtension(DefFiles[path].ext)).info : TRUE

\* this step is the loop iteration of the walk on this path
Step(path) == pc = "walk" /\ path \notin visited /\ visited' = visited \cup {path}

\* a pattern matches a name chunk by chunk: a literal chunk matches itself,
\* "*" exactly one chunk, "**" any number of chunks
RECURSIVE Matches(_, _)
Matches(pattern, name) ==
    IF pattern = <<>> THEN name = <<>>
    ELSE IF pattern[1] = DoubleWild
    THEN \/ Matches(Tail2(pattern), name)
         \/ name # <<>> /\ Matches(pattern, Tail2(name))
    ELSE /\ name # <<>>
         /\ pattern[1] = SingleWild \/ pattern[1] = name[1]
         /\ Matches(Tail2(pattern), Tail2(name))

Range(f) == {f[i] : i \in DOMAIN f}

(* ------------------------------- claims -------------------------------- *)

\* C1: get_types(pattern) returns exactly the stored records whose full name
\* the pattern matches (literal = itself, "*" = one segment, "**" = zero or
\* more segments), each once, whatever the insertion order.
\* Violated: the index can hold names with wildcard or verbatim chunks (C7).
C1_GetTypesExactMatch ==
    \A ke \in Patterns :
        LET found == get_types(types, ke)
            expected == {t \in Records(types) : Matches(ke, t.full_name)} IN
        /\ Range(found) = expected
        /\ Len(found) = Cardinality(expected)

\* C2: loading a file whose full name is present with a different type hash
\* returns an error naming the stored record's .json file and the new one,
\* and leaves the whole index as it was.
C2_ConflictKeepsFirst ==
    [][\A path \in Paths :
          ( /\ Step(path)
            /\ Loadable(path)
            /\ \E e \in weight_at(types, Built(path).full_name) :
                   e.type_hash # Built(path).type_hash )
          => /\ last'.res.kind = "ConflictingHash"
             /\ last'.res.name = Built(path).full_name
             /\ \E e \in weight_at(types, Built(path).full_name) :
                    last'.res.paths = <<e.json_path, with_extension_json(path)>>
             /\ types' = types
             /\ size' = size
             /\ count' = count]_vars

\* a conflict was reported while the first record is still the stored one
C2_Witness ==
    /\ last.res.kind = "ConflictingHash"
    /\ \E t \in Records(types) :
          /\ t.full_name = last.res.name
          /\ t.json_path = last.res.paths[1]
          /\ t.json_path # last.res.paths[2]
          /\ t.type_hash # Built(last.path).type_hash

\* C3: loading a file whose full name is present with the same type hash
\* reports no error and changes nothing: same number of records, and the
\* record at that name is still the first one loaded.
C3_SameHashIsNoOp ==
    [][\A path \in Paths :
          ( /\ Step(path)
            /\ Loadable(path)
            /\ \E e \in weight_at(types, Built(path).full_name) :
                   e.type_hash = Built(path).type_hash )
          => /\ last'.res = NoErr
             /\ weight_at(types', Built(path).full_name) = weight_at(types, Built(path).full_name)
             /\ Cardinality(Records(types')) = Cardinality(Records(types))
             /\ types' = types
             /\ size' = size]_vars

\* a second file of the same name and hash was loaded without error, and the
\* stored record is not the one of this file
C3_Witness ==
    /\ last.called
    /\ last.res = NoErr
    /\ Loadable(last.path)
    /\ Built(last.path) \notin Records(types)
    /\ \E e \in weight_at(types, Built(last.path).full_name) :
          /\ e.type_hash = Built(last.path).type_hash
          /\ e.definition_content # Built(last.path).definition_content

\* C4: after any sequence of directory loads get_size() is the number of
\* records held in the index.
\* Violated: an already-loaded duplicate returns Ok(()) and is counted.
C4_SizeIsRecordCount ==
    pc # "walk" => size = Cardinality(Records(types))

\* C5: a successful load for a full name not yet in the index makes the exact
\* lookup of that name return the record of that file, and no later load
\* changes what a name resolves to.
C5_LookupAfterInsert ==
    [][ /\ \A path \in Paths :
              ( /\ Step(path)
                /\ last'.called
                /\ last'.res = NoErr
                /\ weight_at(types, FileName(path)) = {} )
              => \E h \in HashesOf(path) :
                     weight_at(types', FileName(path)) = {ExpectedRecord(path, h)}
        /\ \A k \in DOMAIN types :
              types[k] # {} => weight_at(types', k) = types[k] ]_vars

\* the record of the file loaded last is the one its name resolves to
C5_Witness ==
    /\ last.called
    /\ last.res = NoErr
    /\ \E h \in HashesOf(last.path) :
          weight_at(types, FileName(last.path)) = {ExpectedRecord(last.path, h)}

\* C6: every record held is stored at its full name, which has three
\* segments, the middle one being (case-insensitively) the kind of the
\* definition file's extension, and its type hash is listed for its full name
\* in its type_hashes; a file breaking any of these is rejected, never held.
C6_RecordInvariant ==
    /\ \A k \in DOMAIN types : \A t \in types[k] :
          /\ k = t.full_name
          /\ Len(t.full_name) = 3
          /\ t.kind = KindOfExtension(DefFiles[t.definition_path].ext)
          /\ ToLower(t.full_name[2]) = ToLower(t.kind)
          /\ \E i \in 1..Len(t.type_description.type_hashes) :
                /\ t.type_description.type_hashes[i].type_name = t.full_name
                /\ t.type_description.type_hashes[i].hash_string = t.type_hash
          /\ ~Violates(t.definition_path)
    /\ (last.called /\ JsonIsOk(last.path) /\ Violates(last.path)) => last.res # NoErr

\* a kind mismatch was rejected while a record with an upper case kind
\* segment is held
C6_Witness ==
    /\ last.called
    /\ last.res.kind = "TypeKindMismatch"
    /\ \E t \in Records(types) : t.full_name[2] = "SRV" /\ t.kind = "SRV"

\* C7: no index ever holds a record whose full name has a wildcard chunk or
\* an empty chunk.
\* Violated: OwnedKeyExpr::try_from accepts "*" and "**" chunks.
C7_NoWildcardKey ==
    \A k \in DOMAIN types : \A i \in 1..Len(k) : k[i] \notin {SingleWild, DoubleWild, ""}

\* C8: a failing file leaves the index as it was and the walk goes on: every
\* valid definition file the walk has visited has a record at its name.
C8_FailureIsLocal ==
    [][ /\ \A path \in Paths :
              (Step(path) /\ last'.res # NoErr) => (types' = types /\ pc' = "walk")
        /\ \A path \in Paths :
              (Step(path) /\ ~Valid(path)) => (types' = types /\ pc' = "walk")
        /\ pc = "walk" =>
              \A q \in visited' : Valid(q) => weight_at(types', FileName(q)) # {} ]_vars

\* a valid file was loaded after a failing file of the same walk
C8_Witness ==
    /\ pc = "walk"
    /\ last.called
    /\ last.res = NoErr
    /\ \E t \in Records(types) : t.definition_path = last.path
    /\ \E q \in visited : q # last.path /\ IsDefinitionFile(q) /\ ~Valid(q)

\* the text C9 describes: the definition text, then one block per entry of
\* the referenced type descriptions found in the index, in order
RECURSIVE ExpectedBlocks(_, _, _)
ExpectedBlocks(tree, deps, i) ==
    IF i > Len(deps) THEN <<>>
    ELSE (IF \E d \in Records(tree) : d.full_name = deps[i].type_name
          THEN LET d == CHOOSE d \in Records(tree) : d.full_name = deps[i].type_name IN
               <<SEPARATOR, d.kind, ": ", d.package_name, "/", d.short_name, "\n">>
                   \o d.definition_content
          ELSE <<>>)
         \o ExpectedBlocks(tree, deps, i + 1)

\* C9: get_mcap_schema(record) returns the definition text followed by one
\* block (separator, "<KIND>: <package>/<short_name>", definition text) per
\* referenced entry found by exact lookup, in order, without deduplication;
\* an entry absent from the index contributes nothing.
\* Violated: an entry whose name is not a key expression panics (C10).
C9_McapSchemaText ==
    \A t \in Records(types) :
        get_mcap_schema(types, t) =
            [panic |-> FALSE,
             text |-> t.definition_content
                      \o ExpectedBlocks(types,
                             t.type_description.type_description_msg.referenced_type_descriptions, 1)]

(* ------------------------ claims about the serving --------------------- *)
\* ASCII lower case of a format token
LowerToken(f) ==
    IF f = "TypeDescription" THEN "typedescription"
    ELSE IF f = "FullTypeDescription" THEN "fulltypedescription"
    ELSE IF f = "Definition" THEN "definition"
    ELSE IF f \in {"Mcap", "MCAP"} THEN "mcap"
    ELSE IF f = "Hash" THEN "hash"
    ELSE IF f = "Path" THEN "path"
    ELSE f

\* the accepted tokens, in lower case
AcceptedTokens == {LowerToken(ReplyFormatVariants[i]) : i \in DOMAIN ReplyFormatVariants}

\* a types query whose format parameter is present and not an accepted token
UnknownFormat(q) ==
    q.kind = "types" /\ q.format # <<>> /\ LowerToken(q.format[1]) \notin AcceptedTokens
\* a types query whose format parameter is absent or an accepted token
KnownFormat(q) ==
    q.kind = "types" /\ (q.format = <<>> \/ LowerToken(q.format[1]) \in AcceptedTokens)

\* the records the pattern of a types query matches, in the order of the match list
MatchList(q) == IF q.ke = <<>> THEN <<>> ELSE get_types(types, q.ke)

\* C10: get_mcap_schema returns a result for every record of the index,
\* whatever its referenced names are, and never aborts the query being served.
\* Violated: the expect on KeyExpr::try_from of a referenced name that is not
\* a key expression (here the empty name) panics, and the process with it.
C10_FlattenNeverFails ==
    /\ \A t \in Records(types) : ~get_mcap_schema(types, t).panic
    /\ pc # "panicked"

\* C11: a types query with an unknown format token gets exactly one error
\* reply, which lists every accepted token, and no data reply, whether or not
\* its pattern matches a record; handling it leaves the index unchanged.
C11_UnknownFormatOneError ==
    [][UnknownFormat(query') =>
        /\ types' = types
        /\ size' = size
        /\ pc' = "serve"
        /\ hpc' \in {"reply_err", "idle"}
        /\ hpc' = "reply_err" => replies' = <<>>
        /\ hpc' = "idle" =>
              /\ Len(replies') = 1
              /\ replies'[1].err
              /\ \A i \in DOMAIN ReplyFormatVariants :
                     ReplyFormatVariants[i] \in Range(replies'[1].text)]_vars

\* an unknown format got its error reply although the pattern matches records
C11_Witness ==
    /\ UnknownFormat(query)
    /\ hpc = "idle"
    /\ Len(replies) = 1 /\ replies[1].err
    /\ Len(MatchList(query)) >= 2

\* C12: a types query with a recognized or absent format gets one reply per
\* matched record, on the key @ros2_types/<full_name> of the record, in the
\* order of the match list, none when nothing matches, and never an error;
\* a failed delivery does not stop the remaining replies.
\* Violated: with the Mcap format the handler panics on the first matched
\* record whose referenced names hold a name that is no key expression (C10),
\* and the remaining records get no reply.
C12_OneReplyPerMatch ==
    KnownFormat(query) =>
        /\ pc # "panicked"
        /\ Len(replies) + Len(todo) = Len(MatchList(query))
        /\ \A i \in DOMAIN replies :
               /\ ~replies[i].err
               /\ replies[i].key = <<"@ros2_types">> \o MatchList(query)[i].full_name
        /\ hpc = "idle" => Len(replies) = Len(MatchList(query))

\* the payload the format table gives for a record: token is the lower-case
\* format token, <<>> when the format is absent
ExpectedPayload(token, t, text, json) ==
    IF token \in {<<>>, <<"typedescription">>}
    THEN json = {t.type_description.type_description_msg.type_description} /\ text = <<>>
    ELSE IF token = <<"fulltypedescription">>
    THEN json = {t.type_description.type_description_msg} /\ text = <<>>
    ELSE IF token = <<"definition">>
    THEN json = {} /\ \E path \in ServePaths :
                          FileName(path) = t.full_name /\ text = DefFiles[path].content
    ELSE IF token = <<"mcap">>
    THEN json = {} /\ text = get_mcap_schema(types, t).text
    ELSE IF token = <<"hash">>
    THEN json = {} /\ text = <<t.type_hash>>
    ELSE IF token = <<"path">>
    THEN json = {} /\ \E path \in ServePaths :
                          FileName(path) = t.full_name /\ text = <<path>>
    ELSE FALSE

\* the tokens of the format table with the names "full" and "flattened"
TableToken(f) ==
    IF f = <<"full">> THEN <<"fulltypedescription">>
    ELSE IF f = <<"flattened">> THEN <<"mcap">>
    ELSE IF f \in {<<>>, <<"definition">>, <<"hash">>, <<"path">>} THEN f
    ELSE <<"none">>

\* C13 as stated: the tokens full and flattened select the own plus referenced
\* descriptions and the flattened schema, and every reply of a query with a
\* token of the table carries the payload of that token.
\* Violated: ReplyFormat has no variant named full or flattened, a query with
\* either token gets the error reply of an unknown format.
C13_PayloadByTableToken ==
    (query.kind = "types" /\ TableToken(query.format) # <<"none">>) =>
        \A i \in DOMAIN replies :
            /\ ~replies[i].err
            /\ ExpectedPayload(TableToken(query.format), MatchList(query)[i],
                               replies[i].text, replies[i].json)

\* C13: every reply of a types query with a recognized or absent format
\* carries the payload its format selects for the matched record it is about:
\* own description (absent, TypeDescription), own plus referenced descriptions
\* (FullTypeDescription), definition text (Definition), get_mcap_schema (Mcap),
\* type hash (Hash), path of the definition file (Path); the format is the
\* same for every record of the query.
C13_PayloadByFormat ==
    KnownFormat(query) =>
        \A i \in DOMAIN replies :
            /\ ~replies[i].err
            /\ i <= Len(MatchList(query))
            /\ ExpectedPayload(IF query.format = <<>> THEN <<>>
                               ELSE <<LowerToken(query.format[1])>>,
                               MatchList(query)[i], replies[i].text, replies[i].json)

\* a path query answered for two records, each with its definition file
C13_Witness ==
    /\ KnownFormat(query)
    /\ query.format = <<"path">>
    /\ hpc = "idle"
    /\ Len(replies) >= 2
    /\ \A i \in DOMAIN replies : replies[i].text[1] \in ServePaths

\* the codes the table of field type ids assigns
AssignedCodes == (0..22) \cup (49..70) \cup (97..118) \cup (145..166)

\* C14: a field type id given as a string parses exactly when it matches a
\* variant name case-insensitively, one given as an integer exactly when it
\* is an assigned code, and the result is that variant; every other value is
\* rejected.
\* Violated: from_str compares case-sensitively, "int8" and "INT8" are rejected.
C14_ParseFieldTypeId ==
    parsed.done =>
        IF input.kind = "str"
        THEN /\ parsed.ok <=> \E v \in FieldTypeId : v.name = input.s
             /\ parsed.ok => \E v \in FieldTypeId : v.name = input.s /\ v.repr = parsed.id
        ELSE IF input.kind = "u64"
        THEN /\ parsed.ok <=> input.n \in AssignedCodes
             /\ parsed.ok => parsed.id = input.n
        ELSE ~parsed.ok

\* C15: the index is written only before the queryables are declared, which
\* happens between two directories and never during a walk; from then on no
\* step (query received, taken, answered, failed) changes the records or the
\* size, every pattern keeps matching the same records, and replies are
\* issued only then.
C15_IndexFrozenWhenServing ==
    [][/\ (pc' = "serve" /\ pc # "serve") => (pc = "build" /\ count = 0 /\ visited = {})
       /\ pc \in {"serve", "panicked"} =>
              /\ pc' \in {"serve", "panicked"}
              /\ types' = types
              /\ size' = size
              /\ Records(types') = Records(types)
              /\ \A ke \in ServePatterns \ {<<>>} : get_types(types', ke) = get_types(types, ke)
       /\ (replies' # replies \/ query' # query) => pc = "serve"]_vars

\* a types query and then an env error were handled on an index of two records
C15_Witness ==
    /\ pc = "serve"
    /\ hpc = "idle"
    /\ query.kind = "env"
    /\ replies # <<>> /\ replies[1].err
    /\ Cardinality(Records(types)) >= 2
    /\ typesQ = 0 /\ envQ = 0

\* C16: a query is taken from either queryable only when no handler runs, a
\* handler only adds replies to the query it was given, and a query waiting
\* in a full channel is eventually taken, the reply operations completing.
\* Violated: once get_mcap_schema has panicked (C10) the process is gone and
\* the queries received before are never handled.
C16_OneAtATimeAndEventually ==
    /\ [][/\ (typesQ' < typesQ \/ envQ' < envQ) => (hpc = "idle" /\ replies' = <<>>)
          /\ query' # query => (typesQ' < typesQ \/ envQ' < envQ)
          /\ (typesQ' >= typesQ /\ envQ' >= envQ /\ replies' # replies) =>
                 /\ hpc # "idle"
                 /\ query' = query
                 /\ \E r \in Range(replies') : replies' = Append(replies, r)]_vars
    /\ (typesQ = MaxPending) ~> (typesQ < MaxPending)
    /\ (envQ = MaxPending) ~> (envQ < MaxPending)

====
